---- MODULE Spec2Model ----
(***************************************************************************)
(* Non-transitive dice game (game.py): argument parsing, the provably fair *)
(* commit / choose / reveal protocol, the console menus and the game loop. *)
(* Strings are sequences of one-character strings, so that split, strip,   *)
(* lower, int and str are computed and not assumed.                        *)
(***************************************************************************)
EXTENDS Integers, Sequences, FiniteSets, TLC

VARIABLES
    argv,                 \* sys.argv[1:], a sequence of strings
    pc,                   \* where the single thread of control is
    exitCode,             \* process exit status, NoInt while running
    dice,                 \* GameController.all_dice (<<>> before parsing)
    stage,                \* which call of generate _play_round is in
    max_val,              \* generate: argument max_val
    computer_move,        \* generate: local computer_move
    key,                  \* generate: local key
    hmac,                 \* generate: local hmac
    user_move,            \* generate: local user_move
    result,               \* generate: local result / return value
    choice,               \* the line last read from the console, normalised
    invalid,              \* rejected lines at the current menu
    ui_log,               \* what the current call of generate has printed
    ui_hmac,              \* the digest printed by display_hmac
    ui_key,               \* the key printed by display_key_and_move
    ui_move,              \* the move printed by display_key_and_move
    ui_result,            \* <<c, u, n, r>> of the printed "Result:" line
    ui_table,             \* the help table last printed in this round
    keyGens,              \* calls of generate_key in the current generate
    randDraws,            \* calls of generate_secure_random in it
    user_goes_first,      \* _play_round: user_goes_first
    available_dice,       \* _select_dice: available_dice (positions)
    player_die,           \* position of the player's die in all_dice
    computer_die,         \* position of the computer's die in all_dice
    computer_roll_index,
    computer_roll_value,  \* <<v>> once rolled, <<>> before
    player_roll_index,
    player_roll_value,    \* <<v>> once rolled, <<>> before
    outcome               \* the outcome line printed in this round

vars == <<argv, pc, exitCode, dice, stage, max_val, computer_move, key, hmac,
          user_move, result, choice, invalid, ui_log, ui_hmac, ui_key,
          ui_move, ui_result, ui_table, keyGens, randDraws, user_goes_first,
          available_dice, player_die, computer_die, computer_roll_index,
          computer_roll_value, player_roll_index, player_roll_value,
          outcome>>

----------------------------------------------------------------------------
(* Bounds of the model                                                     *)

\* number of distinct 32-byte keys the entropy source can return
NumKeys == 2
\* lines the human may have rejected at one menu before answering
MaxInvalid == 1
\* command-line arguments of the parser runs
MaxArgs == 3
\* comma-separated pieces of a whole command line of the parser runs
MaxPieces == 6
\* faces of a die of the help-table runs
MaxFaces == 2
\* greatest face value of the help-table runs, the least being 0
MaxFaceVal == 1

\* an unbound integer local (Python: not yet assigned)
NoInt == -1
NoKey == 0
NoHmac == <<>>
EOF == <<"<EOF>">>

----------------------------------------------------------------------------
(* Strings                                                                 *)

Digits == {"0", "1", "2", "3", "4", "5", "6", "7", "8", "9"}

DigitVal(c) ==
    CASE c = "0" -> 0 [] c = "1" -> 1 [] c = "2" -> 2 [] c = "3" -> 3
      [] c = "4" -> 4 [] c = "5" -> 5 [] c = "6" -> 6 [] c = "7" -> 7
      [] c = "8" -> 8 [] c = "9" -> 9

DigitChar(d) ==
    CASE d = 0 -> "0" [] d = 1 -> "1" [] d = 2 -> "2" [] d = 3 -> "3"
      [] d = 4 -> "4" [] d = 5 -> "5" [] d = 6 -> "6" [] d = 7 -> "7"
      [] d = 8 -> "8" [] d = 9 -> "9"

\* str.split(','): always at least one piece, empty pieces kept
RECURSIVE Split(_)
Split(s) ==
    IF s = <<>> THEN << <<>> >>
    ELSE LET rest == Split(Tail(s))
         IN  IF Head(s) = ","
             THEN << <<>> >> \o rest
             ELSE << <<Head(s)>> \o Head(rest) >> \o Tail(rest)

\* ",".join(pieces)
RECURSIVE Join(_)
Join(ps) ==
    IF ps = <<>> THEN <<>>
    ELSE IF Len(ps) = 1 THEN ps[1]
    ELSE ps[1] \o <<",">> \o Join(Tail(ps))

\* the pieces kept by "if f"
RECURSIVE NonEmpty(_)
NonEmpty(ps) ==
    IF ps = <<>> THEN <<>>
    ELSE IF Head(ps) = <<>> THEN NonEmpty(Tail(ps))
    ELSE <<Head(ps)>> \o NonEmpty(Tail(ps))

\* str.strip() for blanks
RECURSIVE LStrip(_)
LStrip(s) == IF s # <<>> /\ Head(s) = " " THEN LStrip(Tail(s)) ELSE s

RECURSIVE RStrip(_)
RStrip(s) ==
    IF s # <<>> /\ s[Len(s)] = " " THEN RStrip(SubSeq(s, 1, Len(s) - 1)) ELSE s

Strip(s) == RStrip(LStrip(s))

\* str.lower() on the letters the model uses
LowerChar(c) == CASE c = "Y" -> "y" [] c = "N" -> "n" [] c = "X" -> "x" [] OTHER -> c

Lower(s) == [i \in 1..Len(s) |-> LowerChar(s[i])]

AllDigits(s) == s # <<>> /\ \A i \in 1..Len(s) : s[i] \in Digits

\* str.isdigit()
IsDigitStr(s) == AllDigits(s)

\* int(s) succeeds: blanks around, an optional sign, then digits
IsInt(s) ==
    \E t \in {Strip(s)} :
        /\ t # <<>>
        /\ IF t[1] \in {"-", "+"} THEN AllDigits(Tail(t)) ELSE AllDigits(t)

RECURSIVE NatOf(_)
NatOf(ds) ==
    IF ds = <<>> THEN 0
    ELSE 10 * NatOf(SubSeq(ds, 1, Len(ds) - 1)) + DigitVal(ds[Len(ds)])

\* int(s), for s with IsInt(s)
IntOf(s) ==
    LET Signed(t) ==
            IF t[1] = "-" THEN 0 - NatOf(Tail(t))
            ELSE IF t[1] = "+" THEN NatOf(Tail(t))
            ELSE NatOf(t)
    IN  CHOOSE n \in {Signed(t) : t \in {Strip(s)}} : TRUE

\* str(n)
RECURSIVE StrOfNat(_)
StrOfNat(n) ==
    IF n < 10 THEN <<DigitChar(n)>>
    ELSE StrOfNat(n \div 10) \o <<DigitChar(n % 10)>>

StrOfInt(n) == IF n < 0 THEN <<"-">> \o StrOfNat(0 - n) ELSE StrOfNat(n)

----------------------------------------------------------------------------
(* DiceParser.parse                                                        *)

NOT_ENOUGH_DICE == "Please specify at least three dice."
INCONSISTENT_FACES == "All dice must have the same number of faces."
NON_INTEGER_VALUE == "All dice faces must be integer values."

\* the tokens of one argument that the comprehension converts
FaceTokens(arg_string) == NonEmpty(Split(arg_string))

\* RaisesValueError without the safeguard of Die.__init__
RaisesValueError_NoSafeguard(arg_string) ==
    LET toks == FaceTokens(arg_string)
    IN  \E i \in 1..Len(toks) : ~IsInt(toks[i])

\* [int(f) for f in ...] followed by Die(faces) raises ValueError
RaisesValueError(arg_string) ==
    LET toks == FaceTokens(arg_string)
    IN  \/ \E i \in 1..Len(toks) : ~IsInt(toks[i])
        \/ toks = <<>>

\* the faces of Die(faces) for an argument that raises nothing
FacesOf(arg_string) ==
    LET toks == FaceTokens(arg_string)
    IN  [i \in 1..Len(toks) |-> IntOf(toks[i])]

MinDice == 3

\* parse without the comparison of the face counts (lines 78-79)
parse_NoConsistency(args) ==
    IF Len(args) < MinDice
    THEN [ok |-> FALSE, error |-> NOT_ENOUGH_DICE, dice |-> <<>>]
    ELSE IF \E i \in 1..Len(args) : RaisesValueError(args[i])
    THEN [ok |-> FALSE, error |-> NON_INTEGER_VALUE, dice |-> <<>>]
    ELSE [ok |-> TRUE, error |-> "",
          dice |-> [i \in 1..Len(args) |-> FacesOf(args[i])]]

\* the result of parse: the die list, or the ValidationError raised
parse(args) ==
    IF Len(args) < MinDice
    THEN [ok |-> FALSE, error |-> NOT_ENOUGH_DICE, dice |-> <<>>]
    ELSE IF \E i \in 1..Len(args) : RaisesValueError(args[i])
    THEN [ok |-> FALSE, error |-> NON_INTEGER_VALUE, dice |-> <<>>]
    ELSE LET dice_list == [i \in 1..Len(args) |-> FacesOf(args[i])]
             first_die_faces == Len(dice_list[1])
         IN  IF ~(\A i \in 1..Len(dice_list) : Len(dice_list[i]) = first_die_faces)
             THEN [ok |-> FALSE, error |-> INCONSISTENT_FACES, dice |-> <<>>]
             ELSE [ok |-> TRUE, error |-> "", dice |-> dice_list]

----------------------------------------------------------------------------
(* CryptoProvider                                                          *)

\* secrets.token_bytes(32): the keys the entropy source can return
generate_key == 1..NumKeys

\* generate_secure_random with the upper end included
generate_secure_random_Inclusive(n) == 0..n

\* secrets.randbelow(max_val): the values it can return
generate_secure_random(n) == 0..(n - 1)

\* HMAC-SHA3-256 as a free constructor over the key and the message bytes
\* str(message_int): equal digests exactly for equal keys and messages
calculate_hmac(k, message_int) == <<"HMAC-SHA3-256", k, StrOfInt(message_int)>>

----------------------------------------------------------------------------
(* ProbabilityCalculator and HelpTableGenerator                            *)

\* calculate_win_probability counting ties as wins
calculate_win_probability_GE(die1, die2) ==
    LET total_outcomes == Len(die1) * Len(die2)
        wins == Cardinality({p \in (1..Len(die1)) \X (1..Len(die2)) :
                                die1[p[1]] >= die2[p[2]]})
    IN  IF total_outcomes = 0 THEN <<0, 1>> ELSE <<wins, total_outcomes>>

\* calculate_win_probability counting every pair of different faces
calculate_win_probability_NotEqual(die1, die2) ==
    LET total_outcomes == Len(die1) * Len(die2)
        wins == Cardinality({p \in (1..Len(die1)) \X (1..Len(die2)) :
                                die1[p[1]] # die2[p[2]]})
    IN  IF total_outcomes = 0 THEN <<0, 1>> ELSE <<wins, total_outcomes>>

\* wins / total_outcomes as the pair <<wins, total_outcomes>>
calculate_win_probability(die1, die2) ==
    LET total_outcomes == Len(die1) * Len(die2)
        wins == Cardinality({p \in (1..Len(die1)) \X (1..Len(die2)) :
                                die1[p[1]] > die2[p[2]]})
    IN  IF total_outcomes = 0 THEN <<0, 1>> ELSE <<wins, total_outcomes>>

\* generate_table with one half put on the diagonal
generate_table_HalfDiagonal(all_dice) ==
    [i \in 1..Len(all_dice) |->
        [j \in 1..Len(all_dice) |->
            [prob |-> IF i = j THEN <<1, 2>>
                      ELSE calculate_win_probability(all_dice[i], all_dice[j]),
             starred |-> (i = j)]]]

\* table_data: row = the user's die, column = the PC's die
generate_table(all_dice) ==
    [i \in 1..Len(all_dice) |->
        [j \in 1..Len(all_dice) |->
            [prob |-> calculate_win_probability(all_dice[i], all_dice[j]),
             starred |-> (i = j)]]]

----------------------------------------------------------------------------
(* GameUI.get_user_choice: one pass of its loop on one console line        *)

NoLine == <<"<none>">>

ExitChoice == <<"0">>
HelpChoice == <<"?">>

\* get_user_choice taking a number past the last option as the last option
get_user_choice_Clamped(line, noptions, allow_help) ==
    LET c == Lower(Strip(line))
    IN  IF c = ExitChoice
        THEN [kind |-> "exit", choice |-> c, value |-> <<>>]
        ELSE IF c = HelpChoice /\ allow_help
        THEN [kind |-> "help", choice |-> c, value |-> HelpChoice]
        ELSE IF IsInt(c)
        THEN IF 1 <= IntOf(c)
             THEN [kind |-> "ok", choice |-> c,
                   value |-> StrOfInt((IF IntOf(c) <= noptions THEN IntOf(c) ELSE noptions) - 1)]
             ELSE [kind |-> "invalid_choice", choice |-> c, value |-> <<>>]
        ELSE [kind |-> "invalid_input", choice |-> c, value |-> <<>>]

\* what one line does: kind is exit, help, ok, invalid_choice or
\* invalid_input; value is the string returned for ok. Line 188 binds
\* choice once, to the line stripped and lowered; the branches read it.
get_user_choice(line, noptions, allow_help) ==
    LET Branch(c) ==
            IF c = ExitChoice
            THEN [kind |-> "exit", choice |-> c, value |-> <<>>]
            ELSE IF c = HelpChoice /\ allow_help
            THEN [kind |-> "help", choice |-> c, value |-> HelpChoice]
            ELSE IF IsInt(c)
            THEN IF 1 <= IntOf(c) /\ IntOf(c) <= noptions
                 THEN [kind |-> "ok", choice |-> c, value |-> StrOfInt(IntOf(c) - 1)]
                 ELSE [kind |-> "invalid_choice", choice |-> c, value |-> <<>>]
            ELSE [kind |-> "invalid_input", choice |-> c, value |-> <<>>]
    IN  CHOOSE r \in {Branch(c) : c \in {Lower(Strip(line))}} : TRUE

\* the lines the human types at a menu
MenuLines ==
    {<<"0">>, <<"1">>, <<"2">>, <<"3">>, <<"4">>, <<"?">>, <<"x">>, <<>>,
     <<" ", "2", " ">>, <<"-", "1">>}

\* the lines the human types at "Play another round? (y/n): "
AgainLines == {<<"y">>, <<"Y", " ">>, <<"n">>, <<>>, <<"0">>}

----------------------------------------------------------------------------
(* FairRandomGenerator.generate                                            *)

\* CommitDisplay with the digest left for later
CommitDisplay_NoDigest(h) == [log |-> <<"choice_made">>, hmac |-> NoHmac]

\* lines 226-227: what is displayed once the commitment is made
CommitDisplay(h) == [log |-> <<"choice_made", "hmac">>, hmac |-> h]

\* FairResult without the reduction
FairResult_NoMod(c, u, n) == c + u

\* line 236
FairResult(c, u, n) == (c + u) % n

\* Reveal showing the combined result in place of the committed move
Reveal_Result(k, c, r) == [key |-> k, move |-> r]

\* line 238: the key and the move handed to display_key_and_move
Reveal(k, c, r) == [key |-> k, move |-> c]

\* line 239: the numbers of the "Result:" line
ResultLine(c, u, n, r) == <<c, u, n, r>>

\* GenerateCommit keeping the key of the previous call when there is one
GenerateCommit_CachedKey ==
    /\ pc = "gen_enter"
    /\ \E cm \in generate_secure_random(max_val), k \in generate_key :
          LET kk == IF key # NoKey THEN key ELSE k
              h == calculate_hmac(kk, cm)
              d == CommitDisplay(h)
          IN  /\ computer_move' = cm
              /\ key' = kk
              /\ keyGens' = IF key # NoKey THEN 0 ELSE 1
              /\ hmac' = h
              /\ ui_log' = d.log \o <<"menu">>
              /\ ui_hmac' = d.hmac
    /\ randDraws' = 1
    /\ user_move' = NoInt
    /\ result' = NoInt
    /\ ui_key' = NoKey
    /\ ui_move' = NoInt
    /\ ui_result' = <<>>
    /\ choice' = NoLine
    /\ invalid' = 0
    /\ pc' = "gen_input"
    /\ UNCHANGED <<argv, exitCode, dice, stage, max_val, ui_table,
                   user_goes_first, available_dice, player_die, computer_die,
                   computer_roll_index, computer_roll_value,
                   player_roll_index, player_roll_value, outcome>>

\* lines 222-231: draw, commit, display the digest, show the menu
GenerateCommit ==
    /\ pc = "gen_enter"
    /\ \E cm \in generate_secure_random(max_val), k \in generate_key :
          LET h == calculate_hmac(k, cm)
              d == CommitDisplay(h)
          IN  /\ computer_move' = cm
              /\ key' = k
              /\ hmac' = h
              /\ ui_log' = d.log \o <<"menu">>
              /\ ui_hmac' = d.hmac
    /\ randDraws' = 1
    /\ keyGens' = 1
    /\ user_move' = NoInt
    /\ result' = NoInt
    /\ ui_key' = NoKey
    /\ ui_move' = NoInt
    /\ ui_result' = <<>>
    /\ choice' = NoLine
    /\ invalid' = 0
    /\ pc' = "gen_input"
    /\ UNCHANGED <<argv, exitCode, dice, stage, max_val, ui_table,
                   user_goes_first, available_dice, player_die, computer_die,
                   computer_roll_index, computer_roll_value,
                   player_roll_index, player_roll_value, outcome>>

\* ExitPc when the exit only abandons the round
ExitPc_RoundOnly == "again_input"

\* sys.exit(0) in get_user_choice: SystemExit is caught nowhere
ExitPc == "exited"

\* GenerateInput whose loop is not left on a selection: the menu is
\* shown again
GenerateInput_NoBreak(line) ==
    /\ pc = "gen_input"
    /\ \E r \in {get_user_choice(line, max_val, FALSE)} :
           /\ choice' = r.choice
           /\ IF r.kind = "exit"
              THEN /\ pc' = ExitPc
                   /\ exitCode' = 0
                   /\ ui_log' = Append(ui_log, "goodbye")
                   /\ UNCHANGED <<user_move, result, ui_key, ui_move,
                                  ui_result, invalid>>
              ELSE IF r.kind = "ok" /\ IsDigitStr(r.value)
              THEN UNCHANGED <<pc, exitCode, user_move, result, ui_key,
                               ui_move, ui_result, ui_log, invalid>>
              ELSE /\ invalid < MaxInvalid
                   /\ invalid' = invalid + 1
                   /\ ui_log' = ui_log \o <<r.kind, "menu">>
                   /\ UNCHANGED <<pc, exitCode, user_move, result, ui_key,
                                  ui_move, ui_result>>
    /\ UNCHANGED <<argv, dice, stage, max_val, computer_move, key, hmac,
                   ui_hmac, ui_table, keyGens, randDraws, user_goes_first,
                   available_dice, player_die, computer_die,
                   computer_roll_index, computer_roll_value,
                   player_roll_index, player_roll_value, outcome>>

\* lines 230-240 on one console line
GenerateInput(line) ==
    /\ pc = "gen_input"
    /\ \E r \in {get_user_choice(line, max_val, FALSE)} :
           /\ choice' = r.choice
           /\ IF r.kind = "exit"
              THEN /\ pc' = ExitPc
                   /\ exitCode' = 0
                   /\ ui_log' = Append(ui_log, "goodbye")
                   /\ UNCHANGED <<user_move, result, ui_key, ui_move,
                                  ui_result, invalid>>
              ELSE IF r.kind = "ok" /\ IsDigitStr(r.value)
              THEN LET um == IntOf(r.value)
                       res == FairResult(computer_move, um, max_val)
                       shown == Reveal(key, computer_move, res)
                   IN  /\ user_move' = um
                       /\ result' = res
                       /\ ui_key' = shown.key
                       /\ ui_move' = shown.move
                       /\ ui_result' = ResultLine(computer_move, um, max_val, res)
                       /\ ui_log' = ui_log \o <<"key_and_move", "result">>
                       /\ pc' = "gen_return"
                       /\ UNCHANGED <<exitCode, invalid>>
              ELSE /\ invalid < MaxInvalid
                   /\ invalid' = invalid + 1
                   /\ ui_log' = ui_log \o <<r.kind, "menu">>
                   /\ UNCHANGED <<pc, exitCode, user_move, result, ui_key,
                                  ui_move, ui_result>>
    /\ UNCHANGED <<argv, dice, stage, max_val, computer_move, key, hmac,
                   ui_hmac, ui_table, keyGens, randDraws, user_goes_first,
                   available_dice, player_die, computer_die,
                   computer_roll_index, computer_roll_value,
                   player_roll_index, player_roll_value, outcome>>

----------------------------------------------------------------------------
(* GameController                                                          *)

\* RemoveFirst when the die taken is left in the list
RemoveFirst_Nothing(s, x) == s

\* list.remove(x): the first element equal to x goes; Die defines no
\* __eq__, so dice are equal only to themselves (their position)
RECURSIVE RemoveFirst(_, _)
RemoveFirst(s, x) ==
    IF s = <<>> THEN <<>>
    ELSE IF Head(s) = x THEN Tail(s)
    ELSE <<Head(s)>> \o RemoveFirst(Tail(s), x)

Elements(s) == {s[i] : i \in 1..Len(s)}

NoDie == 0
TossRange == 2

\* run, line 260, and _play_round up to the call of generate(2, ...)
PlayRound ==
    /\ pc = "round_start"
    /\ stage' = "toss"
    /\ max_val' = TossRange
    /\ user_goes_first' = FALSE
    /\ available_dice' = <<>>
    /\ player_die' = NoDie
    /\ computer_die' = NoDie
    /\ computer_roll_index' = NoInt
    /\ computer_roll_value' = <<>>
    /\ player_roll_index' = NoInt
    /\ player_roll_value' = <<>>
    /\ outcome' = ""
    /\ ui_table' = <<>>
    /\ pc' = "gen_enter"
    /\ UNCHANGED <<argv, exitCode, dice, computer_move, key, hmac, user_move,
                   result, choice, invalid, ui_log, ui_hmac, ui_key, ui_move,
                   ui_result, keyGens, randDraws>>

\* AfterToss when available_dice is all_dice itself and not a copy of it:
\* the removal of the computer's die then shortens the die list
AfterToss_Aliased ==
    /\ pc = "gen_return"
    /\ stage = "toss"
    /\ user_goes_first' = (result = 0)
    /\ LET all == [i \in 1..Len(dice) |-> i]
       IN  IF result = 0
           THEN /\ available_dice' = all
                /\ UNCHANGED <<computer_die, dice>>
           ELSE \E cd \in Elements(all) :
                   /\ computer_die' = cd
                   /\ available_dice' = RemoveFirst(all, cd)
                   /\ dice' = [i \in 1..(Len(dice) - 1) |->
                                  IF i < cd THEN dice[i] ELSE dice[i + 1]]
    /\ stage' = "select"
    /\ choice' = NoLine
    /\ invalid' = 0
    /\ pc' = "die_input"
    /\ UNCHANGED <<argv, exitCode, max_val, computer_move, key, hmac,
                   user_move, result, ui_log, ui_hmac, ui_key, ui_move,
                   ui_result, ui_table, keyGens, randDraws, player_die,
                   computer_roll_index, computer_roll_value,
                   player_roll_index, player_roll_value, outcome>>

\* UserGoesFirst with the convention turned round
UserGoesFirst_OnOne(first_move_result) == first_move_result = 1

\* line 272
UserGoesFirst(first_move_result) == first_move_result = 0

\* lines 272-275 and _select_dice up to the player's menu
AfterToss ==
    /\ pc = "gen_return"
    /\ stage = "toss"
    /\ user_goes_first' = UserGoesFirst(result)
    /\ LET all == [i \in 1..Len(dice) |-> i]
       IN  IF UserGoesFirst(result)
           THEN /\ available_dice' = all
                /\ UNCHANGED computer_die
           ELSE \E cd \in Elements(all) :
                   /\ computer_die' = cd
                   /\ available_dice' = RemoveFirst(all, cd)
    /\ stage' = "select"
    /\ choice' = NoLine
    /\ invalid' = 0
    /\ pc' = "die_input"
    /\ UNCHANGED <<argv, exitCode, dice, max_val, computer_move, key, hmac,
                   user_move, result, ui_log, ui_hmac, ui_key, ui_move,
                   ui_result, ui_table, keyGens, randDraws, player_die,
                   computer_roll_index, computer_roll_value,
                   player_roll_index, player_roll_value, outcome>>

\* _get_player_die_choice on one console line, the rest of _select_dice
\* and _play_round up to the call of generate for the computer's roll
DieInput(line) ==
    /\ pc = "die_input"
    /\ \E r \in {get_user_choice(line, Len(available_dice), TRUE)} :
           /\ choice' = r.choice
           /\ IF r.kind = "exit"
              THEN /\ pc' = ExitPc
                   /\ exitCode' = 0
                   /\ UNCHANGED <<stage, max_val, ui_table, available_dice,
                                  player_die, computer_die, invalid>>
              ELSE IF r.kind = "help"
              THEN /\ ui_table' = generate_table(dice)
                   /\ UNCHANGED <<pc, exitCode, stage, max_val,
                                  available_dice, player_die, computer_die,
                                  invalid>>
              ELSE IF r.kind = "ok"
              THEN LET chosen == available_dice[IntOf(r.value) + 1]
                   IN  /\ player_die' = chosen
                       /\ IF user_goes_first
                          THEN LET rest == RemoveFirst(available_dice, chosen)
                               IN  /\ available_dice' = rest
                                   /\ \E cd \in Elements(rest) : computer_die' = cd
                          ELSE UNCHANGED <<available_dice, computer_die>>
                       /\ stage' = "croll"
                       /\ max_val' = Len(dice[chosen])
                       /\ pc' = "gen_enter"
                       /\ UNCHANGED <<exitCode, ui_table, invalid>>
              ELSE /\ invalid < MaxInvalid
                   /\ invalid' = invalid + 1
                   /\ UNCHANGED <<pc, exitCode, stage, max_val, ui_table,
                                  available_dice, player_die, computer_die>>
    /\ UNCHANGED <<argv, dice, computer_move, key, hmac, user_move, result,
                   ui_log, ui_hmac, ui_key, ui_move, ui_result, keyGens,
                   randDraws, user_goes_first, computer_roll_index,
                   computer_roll_value, player_roll_index, player_roll_value,
                   outcome>>

\* AfterComputerRoll using the index of the computer's roll for the
\* player's roll too, with no fair round of its own
AfterComputerRoll_SharedRoll ==
    /\ pc = "gen_return"
    /\ stage = "croll"
    /\ computer_roll_index' = result
    /\ computer_roll_value' = <<dice[computer_die][result + 1]>>
    /\ player_roll_index' = result
    /\ player_roll_value' = <<dice[player_die][result + 1]>>
    /\ outcome' = IF dice[player_die][result + 1] > dice[computer_die][result + 1]
                  THEN "You win!"
                  ELSE IF dice[computer_die][result + 1] > dice[player_die][result + 1]
                  THEN "I win!"
                  ELSE "It's a draw!"
    /\ stage' = "again"
    /\ choice' = NoLine
    /\ pc' = "again_input"
    /\ UNCHANGED <<argv, exitCode, dice, max_val, computer_move, key, hmac,
                   user_move, result, invalid, ui_log, ui_hmac,
                   ui_key, ui_move, ui_result, ui_table, keyGens, randDraws,
                   user_goes_first, available_dice, player_die, computer_die>>

\* lines 287-292: the computer's roll, then the call for the player's roll
AfterComputerRoll ==
    /\ pc = "gen_return"
    /\ stage = "croll"
    /\ computer_roll_index' = result
    /\ computer_roll_value' = <<dice[computer_die][result + 1]>>
    /\ stage' = "proll"
    /\ pc' = "gen_enter"
    /\ UNCHANGED <<argv, exitCode, dice, max_val, computer_move, key, hmac,
                   user_move, result, choice, invalid, ui_log, ui_hmac,
                   ui_key, ui_move, ui_result, ui_table, keyGens, randDraws,
                   user_goes_first, available_dice, player_die, computer_die,
                   player_roll_index, player_roll_value, outcome>>

\* Outcome with ties going to the player
Outcome_TiesWin(player_value, computer_value) ==
    IF player_value >= computer_value THEN "You win!"
    ELSE IF computer_value > player_value THEN "I win!"
    ELSE "It's a draw!"

\* lines 299-304
Outcome(player_value, computer_value) ==
    IF player_value > computer_value THEN "You win!"
    ELSE IF computer_value > player_value THEN "I win!"
    ELSE "It's a draw!"

\* lines 293-304, then run up to "Play another round? (y/n): "
AfterPlayerRoll ==
    /\ pc = "gen_return"
    /\ stage = "proll"
    /\ player_roll_index' = result
    /\ LET v == dice[player_die][result + 1]
       IN  /\ player_roll_value' = <<v>>
           /\ outcome' = Outcome(v, computer_roll_value[1])
    /\ stage' = "again"
    /\ choice' = NoLine
    /\ pc' = "again_input"
    /\ UNCHANGED <<argv, exitCode, dice, max_val, computer_move, key, hmac,
                   user_move, result, invalid, ui_log, ui_hmac, ui_key,
                   ui_move, ui_result, ui_table, keyGens, randDraws,
                   user_goes_first, available_dice, player_die, computer_die,
                   computer_roll_index, computer_roll_value>>

\* run, lines 262-265: anything but y ends the session normally
AgainInput(line) ==
    /\ pc = "again_input"
    /\ LET play_again == Lower(Strip(line))
       IN  /\ choice' = play_again
           /\ IF play_again # <<"y">>
              THEN pc' = "exited" /\ exitCode' = 0
              ELSE pc' = "round_start" /\ UNCHANGED exitCode
    /\ UNCHANGED <<argv, dice, stage, max_val, computer_move, key, hmac,
                   user_move, result, invalid, ui_log, ui_hmac, ui_key,
                   ui_move, ui_result, ui_table, keyGens, randDraws,
                   user_goes_first, available_dice, player_die, computer_die,
                   computer_roll_index, computer_roll_value,
                   player_roll_index, player_roll_value, outcome>>

\* the places where the process is blocked in input()
InputPcs == {"gen_input", "die_input", "again_input"}

\* main, lines 362-364
ValidationExit == 1

\* InterruptExit reported as a failure
InterruptExit_Failure == ValidationExit

\* main, lines 365-367: input() raises EOFError or KeyboardInterrupt
InterruptExit == 0

Interrupt ==
    /\ pc \in InputPcs
    /\ choice' = EOF
    /\ exitCode' = InterruptExit
    /\ pc' = "exited"
    /\ UNCHANGED <<argv, dice, stage, max_val, computer_move, key, hmac,
                   user_move, result, invalid, ui_log, ui_hmac, ui_key,
                   ui_move, ui_result, ui_table, keyGens, randDraws,
                   user_goes_first, available_dice, player_die, computer_die,
                   computer_roll_index, computer_roll_value,
                   player_roll_index, player_roll_value, outcome>>

\* main, lines 346-360: parse, then build the controller and run it
Main ==
    /\ pc = "start"
    /\ \E r \in {parse(argv)} :
           IF r.ok
           THEN /\ dice' = r.dice
                /\ pc' = "round_start"
                /\ UNCHANGED exitCode
           ELSE /\ exitCode' = ValidationExit
                /\ pc' = "exited"
                /\ UNCHANGED dice
    /\ UNCHANGED <<argv, stage, max_val, computer_move, key, hmac, user_move,
                   result, choice, invalid, ui_log, ui_hmac, ui_key, ui_move,
                   ui_result, ui_table, keyGens, randDraws, user_goes_first,
                   available_dice, player_die, computer_die,
                   computer_roll_index, computer_roll_value,
                   player_roll_index, player_roll_value, outcome>>

----------------------------------------------------------------------------
(* Specifications                                                          *)

\* the command lines of the game runs
ArgvPool ==
    { << <<"1", ",", "3">>, <<"2", ",", "2">>, <<"2", ",", "2">> >>,
      << <<"5">>, <<"6">>, <<"7">> >>,
      << <<"2", ",", "9">>, <<"1", ",", "8", ",">>, <<"3", ",", "7">>, <<"-", "4", ",", "1", "2">> >>,
      << <<"1", ",", "2">>, <<"3", ",", "4">> >>,
      << <<"1", ",", "a">>, <<"4", ",", "5">>, <<"7", ",", "8">> >>,
      << <<"1", ",", "2">>, <<"1">>, <<"3", ",", "4">> >>,
      << <<"1">>, <<",">>, <<"2">> >> }

\* the state before main runs
Start ==
    /\ pc = "start"
    /\ exitCode = NoInt
    /\ dice = <<>>
    /\ stage = "main"
    /\ max_val = NoInt
    /\ computer_move = NoInt
    /\ key = NoKey
    /\ hmac = NoHmac
    /\ user_move = NoInt
    /\ result = NoInt
    /\ choice = NoLine
    /\ invalid = 0
    /\ ui_log = <<>>
    /\ ui_hmac = NoHmac
    /\ ui_key = NoKey
    /\ ui_move = NoInt
    /\ ui_result = <<>>
    /\ ui_table = <<>>
    /\ keyGens = 0
    /\ randDraws = 0
    /\ user_goes_first = FALSE
    /\ available_dice = <<>>
    /\ player_die = NoDie
    /\ computer_die = NoDie
    /\ computer_roll_index = NoInt
    /\ computer_roll_value = <<>>
    /\ player_roll_index = NoInt
    /\ player_roll_value = <<>>
    /\ outcome = ""

Init == argv \in ArgvPool /\ Start

Next ==
    \/ Main
    \/ PlayRound
    \/ GenerateCommit
    \/ \E line \in MenuLines : GenerateInput(line)
    \/ AfterToss
    \/ \E line \in MenuLines : DieInput(line)
    \/ AfterComputerRoll
    \/ AfterPlayerRoll
    \/ \E line \in AgainLines : AgainInput(line)
    \/ Interrupt

Spec == Init /\ [][Next]_vars

\* the pieces of an argument of the parser runs
TokenPool == {<<>>, <<"1">>, <<"-", "2">>, <<"a">>}

\* the k-th smallest element of a set of numbers
Nth(S, k) == CHOOSE x \in S : Cardinality({y \in S : y < x}) = k - 1

\* the command line whose pieces, in order, are flat, with a new argument
\* after every position in cuts and commas between the other pieces
ArgvOf(flat, cuts) ==
    LET starts == {1} \cup {c + 1 : c \in cuts}
        n == Cardinality(starts)
        first(k) == Nth(starts, k)
        last(k) == IF k = n THEN Len(flat) ELSE Nth(starts, k + 1) - 1
    IN  [k \in 1..n |-> Join(SubSeq(flat, first(k), last(k)))]

\* every command line of at most MaxArgs arguments and at most MaxPieces
\* comma-separated pieces in all
InitParse ==
    /\ \/ argv = <<>>
       \/ \E t \in 1..MaxPieces :
             \E flat \in [1..t -> TokenPool], cuts \in SUBSET (1..(t - 1)) :
                 /\ Cardinality(cuts) < MaxArgs
                 /\ argv = ArgvOf(flat, cuts)
    /\ Start

NextParse == Main

SpecParse == InitParse /\ [][NextParse]_vars

----------------------------------------------------------------------------
(* Properties                                                              *)

\* a fair round that has committed and not yet returned to a later call
InRound == pc \in {"gen_input", "gen_return"}

\* C1: when generate returns, its result lies in [0, max_val), equals
\* (computer_move + user_move) mod max_val for the value drawn and the
\* value obtained from the prompt, both in [0, max_val), and is the
\* result shown in the "Result:" line.
C1_ResultIsSumModRange ==
    pc = "gen_return" =>
        /\ max_val >= 1
        /\ computer_move \in 0..(max_val - 1)
        /\ user_move \in 0..(max_val - 1)
        /\ result \in 0..(max_val - 1)
        /\ result = (computer_move + user_move) % max_val
        /\ ui_result = <<computer_move, user_move, max_val, result>>

\* a returned fair round whose sum wrapped around
C1_Witness ==
    /\ pc = "gen_return"
    /\ max_val = 2
    /\ computer_move = 1
    /\ user_move = 1
    /\ result = 0

\* C2: in every fair round the value and the key exist and the digest is
\* displayed before the menu is first shown, and the key and the move are
\* displayed only after a menu and once a valid choice has been received.
C2_CommitChooseReveal ==
    /\ \A i \in 1..Len(ui_log) :
          ui_log[i] = "menu" => \E j \in 1..(i - 1) : ui_log[j] = "hmac"
    /\ \A i \in 1..Len(ui_log) :
          ui_log[i] = "key_and_move" =>
              /\ user_move # NoInt
              /\ \E j \in 1..(i - 1) : ui_log[j] = "menu"
    /\ InRound =>
          /\ computer_move # NoInt
          /\ key # NoKey
          /\ ui_hmac # NoHmac
          /\ ui_hmac = hmac
    /\ pc = "gen_input" =>
          /\ user_move = NoInt
          /\ ui_key = NoKey
          /\ ui_move = NoInt
          /\ \A i \in 1..Len(ui_log) : ui_log[i] # "key_and_move"

\* a fair round revealed after the menu was shown twice
C2_Witness ==
    /\ pc = "gen_return"
    /\ ui_log = <<"choice_made", "hmac", "menu", "invalid_input", "menu",
                  "key_and_move", "result">>

\* C3: the key and the move revealed are the ones the displayed digest was
\* computed from: the digest recomputed from them is the displayed digest,
\* and the move used in the result is the committed one.
C3_Binding ==
    ui_key # NoKey =>
        /\ ui_key = key
        /\ ui_move = computer_move
        /\ calculate_hmac(ui_key, ui_move) = ui_hmac
        /\ ui_result[1] = ui_move
        /\ pc = "gen_return" => result = (ui_move + user_move) % max_val

\* a reveal after a rejected line, where the result differs from the move
C3_Witness ==
    /\ pc = "gen_return"
    /\ invalid = 1
    /\ ui_key = 2
    /\ ui_move = 1
    /\ user_move = 1

\* C4: the human's value combined into the result is the integer the human
\* entered at the prompt, and in the toss the human goes first exactly when
\* the number entered equals the computer's bit.
C4_EnteredIsHumanValue ==
    pc = "gen_return" =>
        /\ user_move = IntOf(choice)
        /\ stage = "toss" => ((result = 0) <=> (IntOf(choice) = computer_move))

\* a line that is neither a selection of the menu nor the exit request
Unusable(c, noptions) ==
    /\ c # EOF
    /\ c # ExitChoice
    /\ ~IsInt(c) \/ IntOf(c) < 1 \/ IntOf(c) > noptions

\* C5: a step that reads the exit request or meets end of input ends the
\* session at once: the pending fair round reveals nothing and returns
\* nothing, no outcome is reported for the round, and after the end
\* nothing happens any more.
C5_ExitEndsSession ==
    [][ /\ (pc \in InputPcs /\ choice' \in {ExitChoice, EOF}) =>
              /\ pc' = "exited"
              /\ exitCode' = 0
              /\ UNCHANGED <<stage, max_val, computer_move, key, hmac,
                             user_move, result, ui_key, ui_move, ui_result,
                             keyGens, randDraws, player_die, computer_die,
                             computer_roll_value, player_roll_value,
                             outcome>>
              /\ pc = "gen_input" => (result' = NoInt /\ ui_key' = NoKey)
              /\ pc \in {"gen_input", "die_input"} => outcome' = ""
        /\ pc = "exited" => UNCHANGED vars ]_vars

\* the session ended by the exit request during the computer's roll, the
\* commitment in flight never revealed
C5_Witness ==
    /\ pc = "exited"
    /\ stage = "croll"
    /\ choice = ExitChoice
    /\ hmac # NoHmac
    /\ ui_key = NoKey
    /\ result = NoInt
    /\ outcome = ""

\* C6: every call of generate draws one new value and one new key and
\* computes the digest from them, with nothing of an earlier call left in
\* its locals or on display; no other step generates a key or a value.
C6_FreshPerCall ==
    [][ /\ pc = "gen_enter" =>
              /\ keyGens' = 1
              /\ randDraws' = 1
              /\ key' \in generate_key
              /\ computer_move' \in 0..(max_val - 1)
              /\ hmac' = calculate_hmac(key', computer_move')
              /\ ui_hmac' = hmac'
              /\ user_move' = NoInt
              /\ result' = NoInt
              /\ ui_key' = NoKey
              /\ ui_move' = NoInt
              /\ ui_result' = <<>>
        /\ pc # "gen_enter" =>
              UNCHANGED <<keyGens, randDraws, key, computer_move, hmac>> ]_vars

\* the third fair round of a game round, committed
C6_Witness ==
    /\ pc = "gen_input"
    /\ stage = "proll"
    /\ keyGens = 1
    /\ randDraws = 1
    /\ ui_key = NoKey

\* C7: with max_val = 1 the value drawn is 0, the menu has a line that
\* selects, and the round returns 0.
C7_RangeOne ==
    (max_val = 1 /\ InRound) =>
        /\ computer_move = 0
        /\ pc = "gen_input" =>
              \E line \in MenuLines :
                  get_user_choice(line, max_val, FALSE).kind = "ok"
        /\ pc = "gen_return" =>
              /\ user_move = 0
              /\ result = 0
              /\ ui_result = <<0, 0, 1, 0>>

\* a roll of one-faced dice, returned
C7_Witness ==
    /\ pc = "gen_return"
    /\ stage = "croll"
    /\ max_val = 1
    /\ result = 0

\* C8: a line that is neither a selection nor an exit request shows the
\* same menu again and changes nothing else: in a fair round the
\* commitment stays and the round keeps waiting, in die selection the
\* available dice and the dice chosen stay (a help request displays the
\* table); the session goes on.
C8_UnusableLineReprompts ==
    [][ /\ (pc = "gen_input" /\ Unusable(choice', max_val)) =>
              /\ pc' = "gen_input"
              /\ ui_log' = ui_log \o <<ui_log'[Len(ui_log) + 1], "menu">>
              /\ ui_log'[Len(ui_log) + 1] \in {"invalid_choice", "invalid_input"}
              /\ UNCHANGED <<argv, exitCode, dice, stage, max_val,
                             computer_move, key, hmac, ui_hmac, user_move,
                             result, ui_key, ui_move, ui_result, keyGens,
                             randDraws, user_goes_first, available_dice,
                             player_die, computer_die, outcome>>
        /\ (pc = "die_input" /\ Unusable(choice', Len(available_dice))) =>
              /\ pc' = "die_input"
              /\ choice' = HelpChoice => ui_table' = generate_table(dice)
              /\ choice' # HelpChoice => ui_table' = ui_table
              /\ UNCHANGED <<argv, exitCode, dice, stage, max_val,
                             computer_move, key, hmac, ui_hmac, user_move,
                             result, ui_key, ui_move, ui_result, ui_log,
                             keyGens, randDraws, user_goes_first,
                             available_dice, player_die, computer_die,
                             outcome>> ]_vars

\* a help request at a fair-round menu, where help is not offered
C8_Witness ==
    /\ pc = "gen_input"
    /\ choice = HelpChoice
    /\ invalid = 1
    /\ ui_log = <<"choice_made", "hmac", "menu", "invalid_input", "menu">>

\* the pieces of an argument that are not empty, in order
Pieces(arg) == SelectSeq(Split(arg), LAMBDA t : t # <<>>)

\* at least three arguments, every piece an integer, no die without a
\* face, all dice with as many faces as the first
ValidArgs(args) ==
    /\ Len(args) >= 3
    /\ \A i \in 1..Len(args) :
          /\ \A k \in 1..Len(Pieces(args[i])) : IsInt(Pieces(args[i])[k])
          /\ Len(Pieces(args[i])) >= 1
          /\ Len(Pieces(args[i])) = Len(Pieces(args[1]))

\* C9: parse returns a die list exactly for valid arguments, one die per
\* argument in order with its faces in order; otherwise it raises the
\* ValidationError and returns no dice.
C9_ParseExactlyValid ==
    pc # "start" =>
        IF ValidArgs(argv)
        THEN /\ pc = "round_start"
             /\ exitCode = NoInt
             /\ Len(dice) = Len(argv)
             /\ \A i \in 1..Len(argv) :
                   /\ Len(dice[i]) = Len(Pieces(argv[i]))
                   /\ \A k \in 1..Len(dice[i]) :
                         dice[i][k] = IntOf(Pieces(argv[i])[k])
        ELSE /\ pc = "exited"
             /\ exitCode = ValidationExit
             /\ dice = <<>>

\* three two-faced dice parsed, the dice and their faces in the order given
C9_Witness ==
    /\ pc = "round_start"
    /\ argv = << <<"1", ",", "-", "2">>, <<"-", "2", ",", "1">>, <<"1", ",", "1">> >>
    /\ dice = << <<1, -2>>, <<-2, 1>>, <<1, 1>> >>

\* C10: the exit code is 1 exactly when argument validation fails, and
\* then nothing of the game has begun; every other end of the session has
\* exit code 0.
C10_ExitCodes ==
    /\ pc # "exited" => exitCode = NoInt
    /\ pc = "exited" =>
          /\ exitCode \in {0, 1}
          /\ exitCode = 1 <=> ~ValidArgs(argv)
          /\ exitCode = 1 =>
                /\ stage = "main"
                /\ dice = <<>>
                /\ choice = NoLine
                /\ ui_log = <<>>
                /\ hmac = NoHmac
                /\ outcome = ""

\* the session ended by end of input while a roll was awaited
C10_Witness ==
    /\ pc = "exited"
    /\ exitCode = 0
    /\ choice = EOF
    /\ stage = "proll"


\* C11: the first mover of a game round is decided by one fair round with
\* range 2: the human selects a die first exactly when its result is 0,
\* and the computer selects first when it is 1.
C11_TossDecidesFirstMover ==
    /\ stage = "toss" => max_val = 2
    /\ stage = "select" =>
          /\ max_val = 2
          /\ result \in {0, 1}
          /\ user_goes_first <=> result = 0
          /\ result = 0 =>
                /\ computer_die = NoDie
                /\ Len(available_dice) = Len(dice)
          /\ result = 1 =>
                /\ computer_die \in 1..Len(dice)
                /\ Len(available_dice) = Len(dice) - 1
                /\ \A i \in 1..Len(available_dice) :
                      available_dice[i] # computer_die

\* the toss gave 1 and the computer has taken its die before the human
C11_Witness ==
    /\ stage = "select"
    /\ pc = "die_input"
    /\ result = 1
    /\ ~user_goes_first
    /\ computer_die = 2


\* the dice of this round have both been selected
DiceSelected == stage \in {"croll", "proll", "again"}

\* C12: after die selection the human's die and the computer's die are at
\* two different positions of the die list, also when their faces are the
\* same: the first mover chooses among all N dice, the second among the
\* N - 1 dice the first did not take.
C12_DistinctDice ==
    /\ (pc = "die_input" /\ user_goes_first) =>
          /\ Elements(available_dice) = 1..Len(dice)
          /\ Len(available_dice) = Len(dice)
    /\ (pc = "die_input" /\ ~user_goes_first) =>
          /\ Elements(available_dice) = (1..Len(dice)) \ {computer_die}
          /\ Len(available_dice) = Len(dice) - 1
    /\ DiceSelected =>
          /\ player_die \in 1..Len(dice)
          /\ computer_die \in 1..Len(dice)
          /\ player_die # computer_die
          /\ user_goes_first =>
                /\ Elements(available_dice) = (1..Len(dice)) \ {player_die}
                /\ Len(available_dice) = Len(dice) - 1
                /\ computer_die \in Elements(available_dice)

\* two dice with the same faces, one taken by each party
C12_Witness ==
    /\ DiceSelected
    /\ ~user_goes_first
    /\ computer_die = 3
    /\ player_die = 2
    /\ dice[2] = dice[3]


\* C13: a game round that reaches its end reports one outcome by strict
\* comparison of the rolled values: the player wins exactly when the
\* player's value is greater, the computer exactly when it is smaller, a
\* draw exactly when they are equal; each value is the face of the party's
\* own die at the index its own fair round returned. Before that point no
\* outcome is reported.
C13_OutcomeByStrictComparison ==
    /\ stage \in {"toss", "select", "croll", "proll"} => outcome = ""
    /\ (stage = "proll" /\ pc = "gen_enter") =>
          /\ computer_roll_index = result
          /\ computer_roll_value = <<dice[computer_die][computer_roll_index + 1]>>
    /\ stage = "proll" =>
          computer_roll_value = <<dice[computer_die][computer_roll_index + 1]>>
    /\ stage = "again" =>
          /\ player_roll_index = result
          /\ player_roll_value = <<dice[player_die][player_roll_index + 1]>>
          /\ computer_roll_value = <<dice[computer_die][computer_roll_index + 1]>>
          /\ outcome \in {"You win!", "I win!", "It's a draw!"}
          /\ outcome = "You win!" <=> player_roll_value[1] > computer_roll_value[1]
          /\ outcome = "I win!" <=> player_roll_value[1] < computer_roll_value[1]
          /\ outcome = "It's a draw!" <=> player_roll_value[1] = computer_roll_value[1]

\* a round of equal rolls from two different dice
C13_Witness ==
    /\ pc = "again_input"
    /\ outcome = "It's a draw!"
    /\ player_die # computer_die
    /\ player_roll_value = <<2>>
    /\ computer_roll_value = <<2>>


----------------------------------------------------------------------------
(* The help table over all small dice                                      *)

\* the command line that spells the dice d
ArgvFor(d) ==
    [i \in 1..Len(d) |-> Join([k \in 1..Len(d[i]) |-> StrOfInt(d[i][k])])]

\* MinDice dice of equal length up to MaxFaces with faces in 0..MaxFaceVal
InitTable ==
    /\ \E n \in 1..MaxFaces :
          \E d \in [1..MinDice -> [1..n -> 0..MaxFaceVal]] : argv = ArgvFor(d)
    /\ Start

\* a session in which the human answers the toss and then asks for help
NextTable ==
    \/ Main
    \/ PlayRound
    \/ GenerateCommit
    \/ GenerateInput(<<"1">>)
    \/ AfterToss
    \/ DieInput(HelpChoice)

SpecTable == InitTable /\ [][NextTable]_vars


\* the faces of b that the face x beats, and those it equals
Beaten(x, b) == Cardinality({j \in 1..Len(b) : x > b[j]})

Equalled(x, b) == Cardinality({j \in 1..Len(b) : x = b[j]})

\* face pairs of a and b with the face of a strictly greater
RECURSIVE WinPairs(_, _)
WinPairs(a, b) ==
    IF a = <<>> THEN 0 ELSE Beaten(Head(a), b) + WinPairs(Tail(a), b)

\* face pairs of a and b with equal faces
RECURSIVE TiePairs(_, _)
TiePairs(a, b) ==
    IF a = <<>> THEN 0 ELSE Equalled(Head(a), b) + TiePairs(Tail(a), b)

TableShown == ui_table # <<>>

\* C14: for all dice A and B of the game, the numerators computed for
\* (A, B) and for (B, A) and the number of tied face pairs add up to
\* len(A) * len(B), the denominator of both cells.
C14_WinsAndTiesPartition ==
    TableShown =>
        \A i \in 1..Len(dice), j \in 1..Len(dice) :
            /\ ui_table[i][j].prob[2] = Len(dice[i]) * Len(dice[j])
            /\ ui_table[j][i].prob[2] = Len(dice[i]) * Len(dice[j])
            /\ ui_table[i][j].prob[1] + ui_table[j][i].prob[1]
                  + TiePairs(dice[i], dice[j]) = Len(dice[i]) * Len(dice[j])

\* the table of three dice with ties between them and within them
C14_Witness ==
    /\ TableShown
    /\ dice = << <<0, 1>>, <<1, 1>>, <<0, 0>> >>
    /\ ui_table[1][2].prob = <<0, 4>>
    /\ ui_table[2][1].prob = <<2, 4>>

\* C15: the help table has one row and one column per die in list order,
\* and every cell (i, j), the diagonal included, is the number of face
\* pairs with the face of die i strictly greater than the face of die j
\* over len(die i) * len(die j).
C15_TableCells ==
    TableShown =>
        /\ Len(ui_table) = Len(dice)
        /\ \A i \in 1..Len(dice) :
              /\ Len(ui_table[i]) = Len(dice)
              /\ \A j \in 1..Len(dice) :
                    LET p == ui_table[i][j].prob
                        total == Len(dice[i]) * Len(dice[j])
                    IN  /\ p[2] > 0
                        /\ p[1] * total = WinPairs(dice[i], dice[j]) * p[2]

\* a table whose first diagonal cell is a quarter and whose cells (1, 2)
\* and (2, 1) differ
C15_Witness ==
    /\ TableShown
    /\ dice[1] = <<0, 1>>
    /\ dice[2] = <<0, 0>>
    /\ ui_table[1][1].prob = <<1, 4>>
    /\ ui_table[1][2].prob = <<2, 4>>
    /\ ui_table[2][1].prob = <<0, 4>>


\* C16: the die list and the faces of every die are those parsed and never
\* change afterwards, whatever is played, selected, asked or rolled; every
\* game round starts die selection with all N dice on offer, the one the
\* computer takes first apart.
C16_DiceNeverChange ==
    /\ [](dice # <<>> =>
            /\ Len(dice) = Len(argv)
            /\ \A i \in 1..Len(dice) :
                  /\ Len(dice[i]) = Len(Pieces(argv[i]))
                  /\ \A k \in 1..Len(dice[i]) :
                        dice[i][k] = IntOf(Pieces(argv[i])[k]))
    /\ [][ /\ argv' = argv
           /\ pc # "start" => dice' = dice
           /\ (pc = "gen_return" /\ stage = "toss") =>
                 /\ pc' = "die_input"
                 /\ Len(available_dice') + (IF computer_die' = NoDie THEN 0 ELSE 1)
                       = Len(dice)
                 /\ Elements(available_dice') \cup ({computer_die'} \ {NoDie})
                       = 1..Len(dice) ]_vars

\* a further round about to start after a round in which both parties
\* held a die
C16_Witness ==
    /\ pc = "round_start"
    /\ choice = <<"y">>
    /\ player_die = 1
    /\ computer_die = 3
    /\ dice = << <<1, 3>>, <<2, 2>>, <<2, 2>> >>


FairStages == {"toss", "croll", "proll"}

\* the fair round of the current stage has displayed its key and move
Revealed ==
    /\ pc = "gen_return"
    /\ ui_key # NoKey
    /\ ui_log[Len(ui_log)] = "result"

\* C17: a game round runs three fair rounds one after another, the toss
\* with range 2, then with both dice selected the computer's roll and the
\* player's roll with range the number of faces; each commits once and is
\* revealed before the game moves on, none starts while another awaits the
\* human, and the outcome is reported only after both rolls are revealed.
C17_ThreeFairRoundsInSequence ==
    /\ [](/\ pc \in {"gen_enter", "gen_input", "gen_return"} => stage \in FairStages
          /\ stage = "toss" => max_val = 2
          /\ stage \in {"croll", "proll"} =>
                /\ player_die # NoDie
                /\ computer_die # NoDie
                /\ max_val = Len(dice[player_die])
          /\ stage \in {"toss", "select", "croll"} =>
                computer_roll_value = <<>> /\ player_roll_value = <<>>
          /\ stage = "proll" =>
                computer_roll_value # <<>> /\ player_roll_value = <<>>
          /\ outcome # "" =>
                /\ stage = "again"
                /\ computer_roll_value # <<>>
                /\ player_roll_value # <<>>)
    /\ [][ /\ stage' # stage =>
                 /\ <<stage, stage'>> \in
                       {<<"main", "toss">>, <<"toss", "select">>,
                        <<"select", "croll">>, <<"croll", "proll">>,
                        <<"proll", "again">>, <<"again", "toss">>}
                 /\ stage \in FairStages => Revealed
           /\ pc = "gen_enter" =>
                 /\ pc' = "gen_input"
                 /\ stage' = stage
                 /\ keyGens' = 1
           /\ (pc = "gen_input" /\ pc' # "gen_input") =>
                 /\ stage' = stage
                 /\ pc' \in {"gen_return", "exited"}
           /\ pc = "gen_return" =>
                 /\ stage' # stage
                 /\ pc' # "gen_return"
           /\ pc' = "gen_enter" =>
                 /\ pc \in {"round_start", "die_input", "gen_return"}
                 /\ pc = "gen_return" => (stage = "croll" /\ stage' = "proll") ]_vars

\* the outcome reported with the third fair round revealed last
C17_Witness ==
    /\ pc = "again_input"
    /\ stage = "again"
    /\ outcome = "I win!"
    /\ max_val = 2
    /\ ui_key # NoKey
    /\ ui_result[4] = player_roll_index
    /\ player_roll_index # computer_roll_index


----------------------------------------------------------------------------
(* The session with a program that runs and a human who answers            *)

\* the steps the program takes without waiting for anyone
ProgramStep ==
    \/ Main
    \/ PlayRound
    \/ GenerateCommit
    \/ AfterToss
    \/ AfterComputerRoll
    \/ AfterPlayerRoll

\* the human types a selection of the menu or the exit request, or
\* answers the question about another round
HumanAnswers ==
    \/ \E line \in MenuLines :
          GenerateInput(line) /\ ~Unusable(choice', max_val)
    \/ \E line \in MenuLines :
          DieInput(line) /\ ~Unusable(choice', Len(available_dice))
    \/ \E line \in AgainLines : AgainInput(line)

\* the interpreter runs the program on, and at every prompt the human
\* eventually types a usable line
SpecLive == Init /\ [][Next]_vars /\ WF_vars(ProgramStep) /\ WF_vars(HumanAnswers)

\* C18: a fair round stops waiting for the human only by a selection, which
\* reveals it, or by the exit request or the end of input, which end the
\* session; with a human who eventually types a selection or the exit
\* request at every prompt, every fair round is eventually revealed or the
\* session ends, and every game round eventually reports its outcome or
\* the session ends.
C18_RoundsTerminate ==
    /\ [][(pc = "gen_input" /\ pc' # "gen_input") =>
             \/ /\ pc' = "gen_return"
                /\ IsInt(choice')
                /\ IntOf(choice') \in 1..max_val
                /\ ui_key' # NoKey
             \/ /\ pc' = "exited"
                /\ choice' \in {ExitChoice, EOF} ]_vars
    /\ (pc \in {"gen_enter", "gen_input"}) ~> (pc \in {"gen_return", "exited"})
    /\ (pc = "gen_enter" /\ stage = "toss") ~> (outcome # "" \/ pc = "exited")

\* a fair round revealed after the menu had to be shown again, in a round
\* that was played to its outcome
C18_Witness ==
    /\ pc = "again_input"
    /\ outcome # ""
    /\ invalid = MaxInvalid
    /\ ui_log[Len(ui_log)] = "result"
    /\ Len(ui_log) = 5 + 2 * MaxInvalid


----------------------------------------------------------------------------
(* C19                                                                     *)

\* the roll rounds of _play_round, lines 286 and 292
RollStages == {"croll", "proll"}

\* n is an index of the face list of die d
FaceIndex(n, d) == n \in 0..(Len(dice[d]) - 1)

\* C19: in a game on parsed dice all dice have one face count; in both
\* roll rounds the range is the face count of the human's die, which is
\* also that of the computer's die, and the result of the round lies in
\* it; each roll index kept is an index of the faces of its own die and
\* the value kept is the face found there.
C19_RollIndexInRange ==
    /\ \A i, j \in 1..Len(dice) : Len(dice[i]) = Len(dice[j])
    /\ stage \in RollStages =>
          /\ player_die \in 1..Len(dice)
          /\ computer_die \in 1..Len(dice)
          /\ max_val = Len(dice[player_die])
          /\ max_val = Len(dice[computer_die])
          /\ max_val >= 1
          /\ pc = "gen_return" => FaceIndex(result, player_die) /\ FaceIndex(result, computer_die)
    /\ computer_roll_index # NoInt =>
          /\ FaceIndex(computer_roll_index, computer_die)
          /\ computer_roll_value = <<dice[computer_die][computer_roll_index + 1]>>
    /\ player_roll_index # NoInt =>
          /\ FaceIndex(player_roll_index, player_die)
          /\ player_roll_value = <<dice[player_die][player_roll_index + 1]>>

\* both rolls made on two-faced dice, the computer's on the last face and
\* the human's on the first
C19_Witness ==
    /\ pc = "again_input"
    /\ stage = "again"
    /\ Len(dice[computer_die]) = 2
    /\ computer_roll_index = Len(dice[computer_die]) - 1
    /\ player_roll_index = 0
    /\ player_roll_value = <<dice[player_die][1]>>


----------------------------------------------------------------------------
(* C20                                                                     *)

\* all faces of die a are the same value
OneValued(a) == \A k \in 1..Len(a) : a[k] = a[1]

\* C20: the diagonal cell of every die A with n faces is wins(A, A) over
\* n * n with 2 * wins(A, A) + ties(A, A) = n * n and ties(A, A) >= n, so
\* it is strictly less than one half, at most (n - 1) / (2 * n), and 0
\* when all faces of A are equal.
C20_DiagonalBelowHalf ==
    TableShown =>
        \A i \in 1..Len(dice) :
            LET p == ui_table[i][i].prob
                n == Len(dice[i])
                ties == TiePairs(dice[i], dice[i])
            IN  /\ n >= 1
                /\ p[2] = n * n
                /\ 2 * p[1] + ties = n * n
                /\ ties >= n
                /\ 2 * p[1] < p[2]
                /\ p[1] * (2 * n) <= (n - 1) * p[2]
                /\ OneValued(dice[i]) => p[1] = 0

\* a table with a die of two different faces, at the bound (n - 1) / (2 * n),
\* and a die of two equal faces
C20_Witness ==
    /\ TableShown
    /\ dice[1] = <<0, 1>>
    /\ ui_table[1][1].prob = <<1, 4>>
    /\ dice[2] = <<1, 1>>
    /\ ui_table[2][2].prob = <<0, 4>>

====
